---- MODULE Spec2Model ----
(***************************************************************************)
(* Day 22 (mode maze): the Cave terrain generator with its two caches,     *)
(* part_1 (risk level of the rectangle origin..target) and part_2          *)
(* (Cave::find_target, the shortest-path search over (Tool, Coordinate)).  *)
(* Source: src/day-22/src/main.rs.                                         *)
(***************************************************************************)
EXTENDS Integers, Sequences, FiniteSets, Bags, TLC

\* ------------------------------------------------------------------ bounds
\* a well-formed target is drawn from (0..MaxTarget)^2
MaxTarget == 1
\* coordinates the API queries are drawn from: (0..MaxQuery)^2
MaxQuery == 1
\* the search is followed while every square it expands lies in (0..MaxCoord - 1)^2
MaxCoord == 3
\* the same two bounds for the runs that resolve the heap's ties by a fixed order
RefMaxTarget == 2
RefMaxCoord == 64
\* day 15: a generated map has at most MaxBlocked squares that are walls or hold units
MaxBlocked == 2
\* day 15: pick_coord is called on vectors of at most MaxVec coordinates
MaxVec == 3
\* the heap test of day 15 pushes at most MaxHeap entries
MaxHeap == 3
\* the heap test of day 22 pushes at most MaxTimeHeap entries
MaxTimeHeap == 4
\* 2019 day 3: the long segments have their endpoints in -MaxSeg..MaxSeg
MaxSeg == 11

\* ------------------------------------------------------- program constants
TIME_TO_SWITCH_TOOL == 7
MOUTH_OF_CAVE == <<0, 0>>
XFactor == 16807
YFactor == 48271
ErosionModulus == 20183
RegionModulus == 3

Tools == {"None", "Torch", "ClimbingGear"}
RegionTypes == {"Rocky", "Narrow", "Wet"}

VARIABLES
    call,               \* the entry point that built the cave: "api", "part_1", "part_2"
    pc,                 \* position of the running entry point
    depth,              \* Cave.depth
    target,             \* Cave.target
    geologic_indices,   \* Cave.geologic_indices : Coordinate -> GeologicIndex
    region_types,       \* Cave.region_types     : Coordinate -> RegionType
    total_risk,         \* part_1: total_risk
    cursor,             \* part_1: the (x, y) of the next loop iteration
    available_squares,  \* find_target: the BinaryHeap<TimeCoordinate>, as a bag
    time_costs,         \* find_target: (Tool, Coordinate) -> Time
    best_edges,         \* find_target: Coordinate -> Coordinate
    expanded,           \* find_target: the last expansion, the successors it generated,
                        \* and the states expanded so far
    result,             \* what the entry point returned
    order,              \* how the heap resolves ties between entries Ord calls Equal
    overflow_checks,    \* the build profile: TRUE when arithmetic overflow panics
                        \* (debug, tests), FALSE when it wraps (release)
    map,                \* day 15: the Map, [terrain, units]
    start,              \* day 15: get_reachable_path's start
    end,                \* day 15: get_reachable_path's end
    coords,             \* day 15: pick_coord's vector
    first_segment,      \* 2019 day 3: line_segments_intersection's first argument
    second_segment,     \* 2019 day 3: line_segments_intersection's second argument
    actual              \* the heap tests: what was popped so far, in order

\* the variables of the other crates, which day 22 leaves alone
otherVars == <<map, start, end, coords, first_segment, second_segment, actual>>

vars == <<call, pc, depth, target, geologic_indices, region_types, total_risk,
          cursor, available_squares, time_costs, best_edges, expanded, result, order,
          overflow_checks, otherVars>>

caveVars == <<depth, target, order, overflow_checks>>
searchVars == <<available_squares, time_costs, best_edges, expanded>>
part1Vars == <<total_risk, cursor>>

\* ------------------------------------------------------------- primitives
\* Rust's % on i32: the remainder of the truncated division (sign of the dividend)
RemT(a, b) == IF a >= 0 THEN a % b ELSE -((((-(a + 1)) % b) + 1) % b)

\* HashMap::insert
Insert(m, k, v) == (k :> v) @@ m

EmptyMap == <<>>

\* let x = e in F(x), with e evaluated once
Bind(bound__, F(_)) == CHOOSE r__ \in {F(x__) : x__ \in {bound__}} : TRUE

Abs(a) == IF a < 0 THEN -a ELSE a

\* ------------------------------------------------- arbitrary-size naturals
\* A natural number as its sequence of bits, most significant first, for the
\* values that do not fit the integers of the checker.
RECURSIVE NatBits(_)
NatBits(n) == IF n = 0 THEN <<>> ELSE Append(NatBits(n \div 2), n % 2)

RECURSIVE BitsNat(_)
BitsNat(b) ==
    IF b = <<>> THEN 0 ELSE 2 * BitsNat(SubSeq(b, 1, Len(b) - 1)) + b[Len(b)]

Zeros(n) == [i \in 1..n |-> 0]

\* b without its leading zeros
Strip(b) ==
    IF \A i \in 1..Len(b) : b[i] = 0 THEN <<>>
    ELSE SubSeq(b, CHOOSE i \in 1..Len(b) : b[i] = 1 /\ \A j \in 1..(i - 1) : b[j] = 0,
                Len(b))

\* Positions lo..hi of a * k + sgn * b + carry, for a and b of one length, a
\* natural k and sgn in {-1, 0, 1}, with the carry out of position lo (-1 is a
\* borrow). The low half is computed first and hands its carry to the high half.
RECURSIVE Digits(_, _, _, _, _, _, _)
Digits(a, k, sgn, b, lo, hi, carry) ==
    IF lo = hi
    THEN Bind(a[lo] * k + sgn * b[lo] + carry + 2, LAMBDA d :
            [bits |-> <<d % 2>>, carry |-> d \div 2 - 1])
    ELSE Bind(Digits(a, k, sgn, b, (lo + hi) \div 2 + 1, hi, carry), LAMBDA low :
         Bind(Digits(a, k, sgn, b, lo, (lo + hi) \div 2, low.carry), LAMBDA high :
            [bits |-> high.bits \o low.bits, carry |-> high.carry]))

\* the bits of a * k + sgn * b, for a non-empty and a * k + sgn * b >= 0
Combine(a, k, sgn, b) ==
    Bind(Digits(a, k, sgn, b, 1, Len(a), 0), LAMBDA r :
        Strip(NatBits(r.carry) \o r.bits))

MulBits(a, k) == Combine(a, k, 0, a)
AddBits(a, b) ==
    IF Len(a) >= Len(b) THEN Combine(a, 1, 1, Zeros(Len(a) - Len(b)) \o b)
    ELSE Combine(Zeros(Len(b) - Len(a)) \o a, 1, 1, b)
\* a - b, for a >= b
SubBits(a, b) == Combine(a, 1, -1, Zeros(Len(a) - Len(b)) \o b)

\* ------------------------------------------------------------ i32 arithmetic
I32Max == 2147483647
I32Min == -I32Max - 1

\* a + b on i32: the sum modulo 2^32 as a signed value, and whether it overflowed
I32Add(a, b) ==
    IF b > 0 /\ a > I32Max - b
    THEN [val |-> (a - I32Max - 1) + (b - I32Max - 1), overflow |-> TRUE]
    ELSE IF b < 0 /\ a < I32Min - b
    THEN [val |-> (a + I32Max + 1) + (b + I32Max + 1), overflow |-> TRUE]
    ELSE [val |-> a + b, overflow |-> FALSE]

\* the signed value of the low 32 bits of the natural number bits
LowI32(bits) ==
    Bind(Zeros(32) \o bits, LAMBDA padded :
    Bind(SubSeq(padded, Len(padded) - 31, Len(padded)), LAMBDA low :
        IF low[1] = 1 THEN BitsNat(Tail(low)) + I32Min ELSE BitsNat(Tail(low))))

\* a * b on i32, for a # i32::MIN and |b| < 2^30: the product modulo 2^32 as a
\* signed value, and whether it overflowed
I32Mul(a, b) ==
    IF a = 0 \/ b = 0 THEN [val |-> 0, overflow |-> FALSE]
    ELSE IF Abs(a) <= I32Max \div Abs(b) THEN [val |-> a * b, overflow |-> FALSE]
    ELSE Bind(MulBits(NatBits(Abs(a)), Abs(b)), LAMBDA magnitude :
            IF (a < 0) = (b < 0)
            THEN [val |-> LowI32(magnitude), overflow |-> TRUE]
            ELSE [val |-> LowI32(SubBits(<<1>> \o Zeros(Len(magnitude)), magnitude)),
                  overflow |-> magnitude # <<1>> \o Zeros(31)])

up(coord) == <<coord[1], coord[2] - 1>>
down(coord) == <<coord[1], coord[2] + 1>>
left(coord) == <<coord[1] - 1, coord[2]>>
right(coord) == <<coord[1] + 1, coord[2]>>

\* mutant: the risk levels of Wet and Narrow are exchanged
risk_level_WetNarrowSwapped(rt) ==
    CASE rt = "Rocky" -> 0
      [] rt = "Wet" -> 2
      [] rt = "Narrow" -> 1

risk_level(rt) ==
    CASE rt = "Rocky" -> 0
      [] rt = "Wet" -> 1
      [] rt = "Narrow" -> 2

required_tools(rt) ==
    CASE rt = "Rocky" -> {"ClimbingGear", "Torch"}
      [] rt = "Wet" -> {"ClimbingGear", "None"}
      [] rt = "Narrow" -> {"None", "Torch"}

\* ------------------------------------------------------ terrain generator
\* Each operator takes the Cave's caches and returns the value together with the
\* caches as the call leaves them.
RECURSIVE get_geologic_index(_, _)
RECURSIVE get_erosion_level(_, _)

\* an overflow that ends the call: with overflow checks it panics
Aborts(r) == r.overflow /\ overflow_checks

\* geologic_indices.insert(*coord, geologic_index); return geologic_index
Stored(gi, coord, index) ==
    [val |-> index.val,
     gi |-> IF Aborts(index) THEN gi ELSE Insert(gi, coord, index.val),
     overflow |-> index.overflow]

\* get_erosion_level(&coord.left()) * get_erosion_level(&coord.up())
ErosionProduct(gi, coord) ==
    Bind(get_erosion_level(gi, left(coord)), LAMBDA l :
        IF Aborts(l) THEN [val |-> 0, gi |-> l.gi, overflow |-> TRUE]
        ELSE Bind(get_erosion_level(l.gi, up(coord)), LAMBDA u :
            IF Aborts(u) THEN [val |-> 0, gi |-> u.gi, overflow |-> TRUE]
            ELSE Bind(I32Mul(l.val, u.val), LAMBDA p :
                    [val |-> p.val, gi |-> u.gi,
                     overflow |-> l.overflow \/ u.overflow \/ p.overflow])))

\* mutant: the axis rules are tried before the cache and before the target
get_geologic_index_AxesFirst(gi, coord) ==
    IF coord[2] = 0 THEN Stored(gi, coord, I32Mul(coord[1], XFactor))
    ELSE IF coord[1] = 0 THEN Stored(gi, coord, I32Mul(coord[2], YFactor))
    ELSE IF coord \in DOMAIN gi THEN [val |-> gi[coord], gi |-> gi, overflow |-> FALSE]
    ELSE IF coord = target THEN [val |-> 0, gi |-> gi, overflow |-> FALSE]
    ELSE Bind(ErosionProduct(gi, coord), LAMBDA p : Stored(p.gi, coord, p))

\* mutant: the two axis factors are exchanged
get_geologic_index_FactorsSwapped(gi, coord) ==
    IF coord \in DOMAIN gi THEN [val |-> gi[coord], gi |-> gi, overflow |-> FALSE]
    ELSE IF coord = MOUTH_OF_CAVE THEN [val |-> 0, gi |-> gi, overflow |-> FALSE]
    ELSE IF coord = target THEN [val |-> 0, gi |-> gi, overflow |-> FALSE]
    ELSE IF coord[2] = 0 THEN Stored(gi, coord, I32Mul(coord[1], YFactor))
    ELSE IF coord[1] = 0 THEN Stored(gi, coord, I32Mul(coord[2], XFactor))
    ELSE Bind(ErosionProduct(gi, coord), LAMBDA p : Stored(p.gi, coord, p))

\* mutant: the product is returned in full but cached reduced modulo 20183
get_geologic_index_CachesReduced(gi, coord) ==
    IF coord \in DOMAIN gi THEN [val |-> gi[coord], gi |-> gi, overflow |-> FALSE]
    ELSE IF coord = MOUTH_OF_CAVE THEN [val |-> 0, gi |-> gi, overflow |-> FALSE]
    ELSE IF coord = target THEN [val |-> 0, gi |-> gi, overflow |-> FALSE]
    ELSE IF coord[2] = 0 THEN Stored(gi, coord, I32Mul(coord[1], XFactor))
    ELSE IF coord[1] = 0 THEN Stored(gi, coord, I32Mul(coord[2], YFactor))
    ELSE Bind(ErosionProduct(gi, coord), LAMBDA p :
            [val |-> p.val,
             gi |-> IF Aborts(p) THEN p.gi
                    ELSE Insert(p.gi, coord, RemT(p.val, ErosionModulus)),
             overflow |-> p.overflow])

get_geologic_index(gi, coord) ==
    IF coord \in DOMAIN gi THEN [val |-> gi[coord], gi |-> gi, overflow |-> FALSE]
    ELSE IF coord = MOUTH_OF_CAVE THEN [val |-> 0, gi |-> gi, overflow |-> FALSE]
    ELSE IF coord = target THEN [val |-> 0, gi |-> gi, overflow |-> FALSE]
    ELSE IF coord[2] = 0 THEN Stored(gi, coord, I32Mul(coord[1], XFactor))
    ELSE IF coord[1] = 0 THEN Stored(gi, coord, I32Mul(coord[2], YFactor))
    ELSE Bind(ErosionProduct(gi, coord), LAMBDA p : Stored(p.gi, coord, p))

\* mutant: the depth is not added
get_erosion_level_NoDepth(gi, coord) ==
    Bind(get_geologic_index(gi, coord), LAMBDA g :
        [val |-> RemT(g.val, ErosionModulus), gi |-> g.gi, overflow |-> g.overflow])

\* mutant: the sum is returned as it is, not reduced modulo 20183
get_erosion_level_NoRemainder(gi, coord) ==
    Bind(get_geologic_index(gi, coord), LAMBDA g :
        IF Aborts(g) THEN [val |-> 0, gi |-> g.gi, overflow |-> TRUE]
        ELSE Bind(I32Add(g.val, depth), LAMBDA sum :
                [val |-> sum.val, gi |-> g.gi, overflow |-> g.overflow \/ sum.overflow]))

get_erosion_level(gi, coord) ==
    Bind(get_geologic_index(gi, coord), LAMBDA g :
        IF Aborts(g) THEN [val |-> 0, gi |-> g.gi, overflow |-> TRUE]
        ELSE Bind(I32Add(g.val, depth), LAMBDA sum :
                [val |-> RemT(sum.val, ErosionModulus), gi |-> g.gi,
                 overflow |-> g.overflow \/ sum.overflow]))

RegionOf(r) == CASE r = 0 -> "Rocky" [] r = 1 -> "Wet" [] r = 2 -> "Narrow"

\* panic: the call did not return: an overflow with overflow checks, or the match
\* fell into unreachable!()
get_region_type(gi, rt, coord) ==
    IF coord \in DOMAIN rt
    THEN [val |-> rt[coord], gi |-> gi, rt |-> rt, panic |-> FALSE, overflow |-> FALSE]
    ELSE
        Bind(get_erosion_level(gi, coord), LAMBDA e :
        Bind(RemT(e.val, RegionModulus), LAMBDA r :
            IF Aborts(e) \/ r \notin {0, 1, 2}
            THEN [val |-> "Rocky", gi |-> e.gi, rt |-> rt, panic |-> TRUE,
                  overflow |-> e.overflow]
            ELSE [val |-> RegionOf(r), gi |-> e.gi,
                  rt |-> Insert(rt, coord, RegionOf(r)), panic |-> FALSE,
                  overflow |-> e.overflow]))

get_risk_level(gi, rt, coord) ==
    Bind(get_region_type(gi, rt, coord), LAMBDA r :
        [val |-> risk_level(r.val), gi |-> r.gi, rt |-> r.rt, panic |-> r.panic])

\* ------------------------------------------------------------ construction
NoExpansion ==
    [tool |-> "Torch", pos |-> MOUTH_OF_CAVE, succ |-> {}, fresh |-> FALSE, done |-> {}]
None == <<"None">>
Some(t) == <<"Some", t>>

\* the variables of the other crates while a day 22 entry point runs
OthersIdle ==
    /\ map = [terrain |-> EmptyMap, units |-> EmptyMap]
    /\ start = MOUTH_OF_CAVE
    /\ end = MOUTH_OF_CAVE
    /\ coords = <<>>
    /\ first_segment = <<MOUTH_OF_CAVE, MOUTH_OF_CAVE>>
    /\ second_segment = <<MOUTH_OF_CAVE, MOUTH_OF_CAVE>>
    /\ actual = <<>>

\* Cave::new(d, t), called by entry point c
New(c, d, t, o) ==
    /\ OthersIdle
    /\ call = c
    /\ order = o
    /\ pc = "new"
    /\ depth = d
    /\ target = t
    /\ geologic_indices = Insert(Insert(EmptyMap, MOUTH_OF_CAVE, 0), t, 0)
    /\ region_types = EmptyMap
    /\ total_risk = 0
    /\ cursor = MOUTH_OF_CAVE
    /\ available_squares = EmptyBag
    /\ time_costs = EmptyMap
    /\ best_edges = EmptyMap
    /\ expanded = NoExpansion
    /\ result = None

\* the inputs: <<depth, target>>. Depth and Coordinate are i32, and Cave::new
\* takes what it is given: the well-formed inputs, and inputs with a negative
\* depth, a negative x, a negative y, and all three (with a depth below -16807 the
\* erosion level of (1, 0) is negative)
Depths == {0, 1, 2, 20184}
Targets == (0..MaxTarget) \X (0..MaxTarget)
MalformedInputs ==
    {<<-1, <<1, 1>>>>, <<-1, <<0, 0>>>>, <<0, <<-1, 1>>>>, <<2, <<1, -1>>>>,
     <<-1, <<-1, -1>>>>, <<-16808, <<-1, 0>>>>}
Inputs == (Depths \X Targets) \cup MalformedInputs
QueryCoords == (0..MaxQuery) \X (0..MaxQuery)


\* BinaryHeap::pop may return any of the entries Ord calls greatest: "any" follows
\* every choice, "first" and "last" follow one fixed choice each
Init ==
    /\ overflow_checks \in BOOLEAN
    /\ \E c \in {"api", "part_1", "part_2"}, i \in Inputs : New(c, i[1], i[2], "any")

\* the calls of tests::test_part_1 and tests::test_part_2, and the calls with a
\* small well-formed input (depth >= 0, target >= (0, 0))
TestCalls ==
    {<<"part_1", 510, <<10, 10>>>>, <<"part_1", 4002, <<5, 746>>>>,
     <<"part_2", 510, <<10, 10>>>>}
RefDepths == {0, 1, 2, 3, 510}
RefTargets == (0..RefMaxTarget) \X (0..RefMaxTarget)
RefCalls == TestCalls \cup ({"part_1", "part_2"} \X RefDepths \X RefTargets)

RefInit ==
    /\ overflow_checks = TRUE
    /\ \E c \in RefCalls, o \in {"first", "last"} :
        /\ (c[1] = "part_1" => o = "first")
        /\ New(c[1], c[2], c[3], o)

\* ----------------------------------------------------- terrain queries (API)
\* A query's return value is a function of the caches it finds; the actions record
\* what the call leaves in the caches.
GetGeologicIndex(coord) ==
    /\ call = "api" /\ pc \in {"new", "queried"}
    /\ \E g \in {get_geologic_index(geologic_indices, coord)} :
          /\ geologic_indices' = g.gi
          /\ pc' = IF Aborts(g) THEN "panicked" ELSE "queried"
    /\ UNCHANGED <<otherVars, call, caveVars, region_types, part1Vars, searchVars, result>>

GetErosionLevel(coord) ==
    /\ call = "api" /\ pc \in {"new", "queried"}
    /\ \E e \in {get_erosion_level(geologic_indices, coord)} :
          /\ geologic_indices' = e.gi
          /\ pc' = IF Aborts(e) THEN "panicked" ELSE "queried"
    /\ UNCHANGED <<otherVars, call, caveVars, region_types, part1Vars, searchVars, result>>

GetRegionType(coord) ==
    /\ call = "api" /\ pc \in {"new", "queried"}
    /\ \E r \in {get_region_type(geologic_indices, region_types, coord)} :
          /\ geologic_indices' = r.gi
          /\ region_types' = r.rt
          /\ pc' = IF r.panic THEN "panicked" ELSE "queried"
    /\ UNCHANGED <<otherVars, call, caveVars, part1Vars, searchVars, result>>

GetRiskLevel(coord) ==
    /\ call = "api" /\ pc \in {"new", "queried"}
    /\ \E r \in {get_risk_level(geologic_indices, region_types, coord)} :
          /\ geologic_indices' = r.gi
          /\ region_types' = r.rt
          /\ pc' = IF r.panic THEN "panicked" ELSE "queried"
    /\ UNCHANGED <<otherVars, call, caveVars, part1Vars, searchVars, result>>

Query ==
    \E coord \in QueryCoords :
        \/ GetGeologicIndex(coord)
        \/ GetErosionLevel(coord)
        \/ GetRegionType(coord)
        \/ GetRiskLevel(coord)

\* ------------------------------------------------------------------ part_1
\* for x in 0..=target_x { for y in 0..=target_y { ... } }: both ranges are empty
\* when either bound is negative
Part1Enter ==
    /\ call = "part_1" /\ pc = "new"
    /\ total_risk' = 0
    /\ cursor' = <<0, 0>>
    /\ IF target[1] < 0 \/ target[2] < 0
       THEN pc' = "returned" /\ result' = 0
       ELSE pc' = "running" /\ UNCHANGED result
    /\ UNCHANGED <<otherVars, call, caveVars, geologic_indices, region_types, searchVars>>

\* one iteration of the inner loop body
Part1Step ==
    /\ call = "part_1" /\ pc = "running"
    /\ \E r \in {get_risk_level(geologic_indices, region_types, cursor)} :
          /\ geologic_indices' = r.gi
          /\ region_types' = r.rt
          /\ IF r.panic
             THEN pc' = "panicked" /\ UNCHANGED <<part1Vars, result>>
             ELSE /\ total_risk' = total_risk + r.val
                  /\ cursor' = IF cursor[2] < target[2] THEN down(cursor)
                               ELSE <<cursor[1] + 1, 0>>
                  /\ pc' = IF cursor = target THEN "returned" ELSE "running"
                  /\ result' = IF cursor = target THEN total_risk + r.val ELSE result
    /\ UNCHANGED <<otherVars, call, caveVars, searchVars>>

\* ------------------------------------------------------------- find_target
\* mutant: the times compared the natural way (self.0.cmp(&other.0)), a max-heap
cmp_MaxHeap(self, other) ==
    IF self[1] < other[1] THEN -1 ELSE IF self[1] > other[1] THEN 1 ELSE 0

\* Ord for TimeCoordinate: other.0.cmp(&self.0), as -1 / 0 / 1
cmp(self, other) ==
    IF other[1] < self[1] THEN -1 ELSE IF other[1] > self[1] THEN 1 ELSE 0

\* BinaryHeap::pop returns a greatest element of the heap under Ord
IsGreatest(e, heap) == \A o \in BagToSet(heap) : cmp(e, o) >= 0

ToolRank(t) == CASE t = "None" -> 0 [] t = "Torch" -> 1 [] t = "ClimbingGear" -> 2
TieKey(e) == (ToolRank(e[2][1]) * 1000 + e[2][2][1]) * 1000 + e[2][2][2]

\* mutant: pop returns any entry of the heap, a greatest one or not
PopChoices_AnyEntry(heap) == BagToSet(heap)

\* the entries pop may return
PopChoices(heap) ==
    LET greatest == {e \in BagToSet(heap) : IsGreatest(e, heap)}
    IN CASE order = "any" -> greatest
         [] order = "first" -> {e \in greatest : \A o \in greatest : TieKey(e) <= TieKey(o)}
         [] order = "last" -> {e \in greatest : \A o \in greatest : TieKey(e) >= TieKey(o)}

Window == IF order = "any" THEN MaxCoord ELSE RefMaxCoord

\* mutant: the square above is left out
get_adjacent_squares_NoUp(coord) ==
    SelectSeq(<<left(coord), right(coord), down(coord)>>,
              LAMBDA c : c[1] >= 0 /\ c[2] >= 0)

get_adjacent_squares(coord) ==
    SelectSeq(<<left(coord), right(coord), up(coord), down(coord)>>,
              LAMBDA c : c[1] >= 0 /\ c[2] >= 0)

\* The Vec<(Tool, Time)> is built from a HashSet: its order is not fixed, and its
\* elements have distinct tools, so it is modelled as a set.
\* mutant: the 7 minutes of the switch to the torch are not charged at the origin
\* and the target
projected_time_to_move_FreeTorch(gi, rt, current_tool, new_position) ==
    IF new_position = target \/ new_position = MOUTH_OF_CAVE
    THEN [moves |-> {<<"Torch", 1>>}, gi |-> gi, rt |-> rt, panic |-> FALSE]
    ELSE Bind(get_region_type(gi, rt, new_position), LAMBDA r :
            [moves |-> {<<next_tool, IF current_tool = next_tool THEN 1
                                     ELSE 1 + TIME_TO_SWITCH_TOOL>> :
                        next_tool \in required_tools(r.val)},
             gi |-> r.gi, rt |-> r.rt, panic |-> r.panic])

projected_time_to_move(gi, rt, current_tool, new_position) ==
    IF new_position = target \/ new_position = MOUTH_OF_CAVE
    THEN [moves |-> IF current_tool # "Torch"
                    THEN {<<"Torch", 1 + TIME_TO_SWITCH_TOOL>>}
                    ELSE {<<"Torch", 1>>},
          gi |-> gi, rt |-> rt, panic |-> FALSE]
    ELSE Bind(get_region_type(gi, rt, new_position), LAMBDA r :
            [moves |-> {<<next_tool, IF current_tool = next_tool THEN 1
                                     ELSE 1 + TIME_TO_SWITCH_TOOL>> :
                        next_tool \in required_tools(r.val)},
             gi |-> r.gi, rt |-> r.rt, panic |-> r.panic])

\* mutant: a state that already has a cost keeps it (no relaxation)
Relax_FirstCostKept(s, current_cost, current_position, adjacent_square, move) ==
    IF <<move[1], adjacent_square>> \notin DOMAIN s.tc
    THEN [s EXCEPT !.be = Insert(@, adjacent_square, current_position),
                   !.tc = Insert(@, <<move[1], adjacent_square>>, current_cost + move[2]),
                   !.heap = @ (+) SetToBag({<<current_cost + move[2],
                                              <<move[1], adjacent_square>>>>}),
                   !.succ = @ \cup {<<move[1], adjacent_square, move[2]>>}]
    ELSE [s EXCEPT !.succ = @ \cup {<<move[1], adjacent_square, move[2]>>}]

\* mutant: a cheaper way to a state that has a cost is pushed, its cost not recorded
Relax_CostNotLowered(s, current_cost, current_position, adjacent_square, move) ==
    IF <<move[1], adjacent_square>> \notin DOMAIN s.tc
    THEN [s EXCEPT !.be = Insert(@, adjacent_square, current_position),
                   !.tc = Insert(@, <<move[1], adjacent_square>>, current_cost + move[2]),
                   !.heap = @ (+) SetToBag({<<current_cost + move[2],
                                              <<move[1], adjacent_square>>>>}),
                   !.succ = @ \cup {<<move[1], adjacent_square, move[2]>>}]
    ELSE IF current_cost + move[2] < s.tc[<<move[1], adjacent_square>>]
    THEN [s EXCEPT !.be = Insert(@, adjacent_square, current_position),
                   !.heap = @ (+) SetToBag({<<current_cost + move[2],
                                              <<move[1], adjacent_square>>>>}),
                   !.succ = @ \cup {<<move[1], adjacent_square, move[2]>>}]
    ELSE [s EXCEPT !.succ = @ \cup {<<move[1], adjacent_square, move[2]>>}]

\* mutant: a state met for the first time is pushed, its cost not recorded
Relax_NewCostNotRecorded(s, current_cost, current_position, adjacent_square, move) ==
    IF <<move[1], adjacent_square>> \notin DOMAIN s.tc
    THEN [s EXCEPT !.be = Insert(@, adjacent_square, current_position),
                   !.heap = @ (+) SetToBag({<<current_cost + move[2],
                                              <<move[1], adjacent_square>>>>}),
                   !.succ = @ \cup {<<move[1], adjacent_square, move[2]>>}]
    ELSE IF current_cost + move[2] < s.tc[<<move[1], adjacent_square>>]
    THEN [s EXCEPT !.be = Insert(@, adjacent_square, current_position),
                   !.tc = Insert(@, <<move[1], adjacent_square>>, current_cost + move[2]),
                   !.heap = @ (+) SetToBag({<<current_cost + move[2],
                                              <<move[1], adjacent_square>>>>}),
                   !.succ = @ \cup {<<move[1], adjacent_square, move[2]>>}]
    ELSE [s EXCEPT !.succ = @ \cup {<<move[1], adjacent_square, move[2]>>}]

\* body of the inner for loop: one (next_tool, time_to_move_cost)
Relax(s, current_cost, current_position, adjacent_square, move) ==
    IF \/ <<move[1], adjacent_square>> \notin DOMAIN s.tc
       \/ current_cost + move[2] < s.tc[<<move[1], adjacent_square>>]
    THEN [s EXCEPT !.be = Insert(@, adjacent_square, current_position),
                   !.tc = Insert(@, <<move[1], adjacent_square>>, current_cost + move[2]),
                   !.heap = @ (+) SetToBag({<<current_cost + move[2],
                                              <<move[1], adjacent_square>>>>}),
                   !.succ = @ \cup {<<move[1], adjacent_square, move[2]>>}]
    ELSE [s EXCEPT !.succ = @ \cup {<<move[1], adjacent_square, move[2]>>}]

\* the inner for loop over projected_time_costs
RECURSIVE RelaxMoves(_, _, _, _, _)
RelaxMoves(s, current_cost, current_position, adjacent_square, moves) ==
    IF moves = {} THEN s
    ELSE Bind(CHOOSE x \in moves : TRUE, LAMBDA m :
         Bind(Relax(s, current_cost, current_position, adjacent_square, m), LAMBDA s1 :
            RelaxMoves(s1, current_cost, current_position, adjacent_square,
                       moves \ {m})))

\* body of the for loop over get_adjacent_squares(current_position); a panic in
\* an earlier turn has ended the loop
ExpandSquareOf(s, current_cost, current_tool, current_position, adjacent_square) ==
    IF s.panic THEN s
    ELSE Bind(projected_time_to_move(s.gi, s.rt, current_tool, adjacent_square), LAMBDA p :
         Bind([s EXCEPT !.gi = p.gi, !.rt = p.rt, !.panic = p.panic], LAMBDA s1 :
            IF p.panic THEN s1
            ELSE RelaxMoves(s1, current_cost, current_position, adjacent_square,
                            p.moves)))

\* the for loop over get_adjacent_squares(current_position), first to last
RECURSIVE Expand(_, _, _, _, _)
Expand(s, current_cost, current_tool, current_position, adjacent) ==
    IF adjacent = <<>> THEN s
    ELSE IF Len(adjacent) = 1
    THEN ExpandSquareOf(s, current_cost, current_tool, current_position, adjacent[1])
    ELSE Bind(Expand(s, current_cost, current_tool, current_position,
                     SubSeq(adjacent, 1, Len(adjacent) \div 2)), LAMBDA s1 :
            Expand(s1, current_cost, current_tool, current_position,
                   SubSeq(adjacent, Len(adjacent) \div 2 + 1, Len(adjacent))))

\* mutant: the start state is pushed but its cost is not recorded
FindTargetEnter_StartNotRecorded ==
    /\ call = "part_2" /\ pc = "new"
    /\ available_squares' = SetToBag({<<0, <<"Torch", MOUTH_OF_CAVE>>>>})
    /\ time_costs' = EmptyMap
    /\ best_edges' = EmptyMap
    /\ expanded' = NoExpansion
    /\ pc' = "searching"
    /\ UNCHANGED <<otherVars, call, caveVars, geologic_indices, region_types, part1Vars, result>>

FindTargetEnter ==
    /\ call = "part_2" /\ pc = "new"
    /\ available_squares' = SetToBag({<<0, <<"Torch", MOUTH_OF_CAVE>>>>})
    /\ time_costs' = Insert(EmptyMap, <<"Torch", MOUTH_OF_CAVE>>, 0)
    /\ best_edges' = EmptyMap
    /\ expanded' = NoExpansion
    /\ pc' = "searching"
    /\ UNCHANGED <<otherVars, call, caveVars, geologic_indices, region_types, part1Vars, result>>

\* one iteration of the while loop with current_square popped; the search is
\* followed while the squares it touches lie in (0..lim)^2
FindTargetPop(current_square, lim) ==
    LET current_cost == current_square[1]
        current_tool == current_square[2][1]
        current_position == current_square[2][2]
    IN \E popped \in {available_squares (-) SetToBag({current_square})} :
       IF current_position = target /\ current_tool = "Torch"
       THEN /\ pc' = "returned"
            /\ result' = IF <<current_tool, target>> \in DOMAIN time_costs
                         THEN Some(time_costs[<<current_tool, target>>]) ELSE None
            /\ available_squares' = popped
            /\ expanded' = [expanded EXCEPT !.fresh = FALSE]
            /\ UNCHANGED <<geologic_indices, region_types, time_costs, best_edges>>
       ELSE IF <<current_tool, current_position>> \notin DOMAIN time_costs
       THEN /\ pc' = "panicked"
            /\ available_squares' = popped
            /\ expanded' = [expanded EXCEPT !.fresh = FALSE]
            /\ UNCHANGED <<geologic_indices, region_types, time_costs, best_edges, result>>
       ELSE IF current_cost > time_costs[<<current_tool, current_position>>]
       THEN /\ available_squares' = popped
            /\ expanded' = [expanded EXCEPT !.fresh = FALSE]
            /\ UNCHANGED <<pc, geologic_indices, region_types, time_costs, best_edges,
                           result>>
       ELSE IF current_position[1] >= lim \/ current_position[2] >= lim
       THEN /\ pc' = "beyond"
            /\ available_squares' = popped
            /\ expanded' = [expanded EXCEPT !.fresh = FALSE]
            /\ UNCHANGED <<geologic_indices, region_types, time_costs, best_edges, result>>
       ELSE \E s \in {Expand([gi |-> geologic_indices, rt |-> region_types,
                                tc |-> time_costs, be |-> best_edges, heap |-> popped,
                                succ |-> {}, panic |-> FALSE],
                               current_cost, current_tool, current_position,
                               get_adjacent_squares(current_position))} :
               /\ geologic_indices' = s.gi
               /\ region_types' = s.rt
               /\ time_costs' = s.tc
               /\ best_edges' = s.be
               /\ available_squares' = s.heap
               /\ expanded' = [tool |-> current_tool, pos |-> current_position,
                               succ |-> s.succ, fresh |-> ~s.panic,
                               done |-> expanded.done \cup
                                            {<<current_tool, current_position>>}]
               /\ pc' = IF s.panic THEN "panicked" ELSE "searching"
               /\ UNCHANGED result

\* while let Some(current_square) = available_squares.pop() { ... } return None
FindTargetStep ==
    /\ call = "part_2" /\ pc = "searching"
    /\ IF available_squares = EmptyBag
       THEN /\ pc' = "returned"
            /\ result' = None
            /\ UNCHANGED <<geologic_indices, region_types, searchVars>>
       ELSE \E current_square \in PopChoices(available_squares) :
                FindTargetPop(current_square, Window)
    /\ UNCHANGED <<otherVars, call, caveVars, part1Vars>>

Next ==
    \/ Query
    \/ Part1Enter
    \/ Part1Step
    \/ FindTargetEnter
    \/ FindTargetStep

Spec == Init /\ [][Next]_vars

RefNext ==
    \/ Part1Enter
    \/ Part1Step
    \/ FindTargetEnter
    \/ FindTargetStep

RefSpec == RefInit /\ [][RefNext]_vars

\* ==================================================================== claims
WellFormed == depth >= 0 /\ target[1] >= 0 /\ target[2] >= 0
Returned(c) == call = c /\ pc = "returned"

\* ---------------------------------------------------------------------------
\* The terrain as the puzzle defines it, filled bottom-up over the rectangle
\* (0, 0)..(w, h), column by column: coordinate |-> [geo, ero].
CellAt(i, h) == <<(i - 1) \div (h + 1), (i - 1) % (h + 1)>>

GridCell(grid, c) ==
    Bind(IF c = MOUTH_OF_CAVE \/ c = target THEN 0
         ELSE IF c[2] = 0 THEN c[1] * 16807
         ELSE IF c[1] = 0 THEN c[2] * 48271
         ELSE grid[<<c[1] - 1, c[2]>>].ero * grid[<<c[1], c[2] - 1>>].ero, LAMBDA g :
        (c :> [geo |-> g, ero |-> (g + depth) % 20183]) @@ grid)

\* cells lo..hi added to grid, in order
RECURSIVE FillGrid(_, _, _, _)
FillGrid(grid, lo, hi, h) ==
    IF lo > hi THEN grid
    ELSE IF lo = hi THEN GridCell(grid, CellAt(lo, h))
    ELSE Bind(FillGrid(grid, lo, (lo + hi) \div 2, h), LAMBDA half :
            FillGrid(half, (lo + hi) \div 2 + 1, hi, h))

TerrainGrid(w, h) == FillGrid(<<>>, 1, (w + 1) * (h + 1), h)

RECURSIVE SumRange(_, _, _)
SumRange(f, lo, hi) ==
    IF lo > hi THEN 0
    ELSE IF lo = hi THEN f[lo]
    ELSE SumRange(f, lo, (lo + hi) \div 2) + SumRange(f, (lo + hi) \div 2 + 1, hi)

\* C1: for depth = 510 and target = (10, 10), part_1 returns 114 and part_2
\* (Cave::find_target) returns Some(45).
C1_ReferenceValues ==
    (pc = "returned" /\ depth = 510 /\ target = <<10, 10>>) =>
        /\ (call = "part_1" => result = 114)
        /\ (call = "part_2" => result = Some(45))

C1_Witness ==
    /\ Returned("part_2") /\ depth = 510 /\ target = <<10, 10>>
    /\ result = Some(45)
    /\ Cardinality(DOMAIN time_costs) > 100

\* ---------------------------------------------------------------------------
\* Brute-force enumeration of the paths from (Torch, origin) by total cost: level k
\* holds the states some path reaches with a total cost of exactly k. The edges are
\* the ones the search generates (get_adjacent_squares, projected_time_to_move).
Range(seq) == {seq[i] : i \in 1..Len(seq)}

\* the cache of the cave after the geologic index of the cells lo..hi of the
\* rectangle (0, 0)..(w, h) was queried, column by column
RECURSIVE QueryGrid(_, _, _, _)
QueryGrid(gi, lo, hi, h) ==
    IF lo > hi THEN gi
    ELSE IF lo = hi THEN get_geologic_index(gi, CellAt(lo, h)).gi
    ELSE Bind(QueryGrid(gi, lo, (lo + hi) \div 2, h), LAMBDA half :
            QueryGrid(half, (lo + hi) \div 2 + 1, hi, h))

\* the moves out of the states of S: <<time of the move, state moved to>>
MovesFrom(gi, S) ==
    UNION {UNION {{<<m[2], <<m[1], n>>>> :
                      m \in projected_time_to_move(gi, region_types, s[1], n).moves} :
                  n \in Range(get_adjacent_squares(s[2]))} :
           s \in S}

\* levels[k + 1] is level k, outs[k + 1] the moves out of level k: the next level
\* and the moves out of it
PathLevel(gi, levels, outs) ==
    Bind({m[2] : m \in UNION {{o \in outs[j] : o[1] = Len(levels) + 1 - j} :
                              j \in 1..Len(outs)}}, LAMBDA level :
        <<Append(levels, level), Append(outs, MovesFrom(gi, level))>>)

\* the next n levels added to <<levels, outs>>
RECURSIVE PathLevels(_, _, _)
PathLevels(gi, lo, n) ==
    IF n <= 0 THEN lo
    ELSE IF n = 1 THEN PathLevel(gi, lo[1], lo[2])
    ELSE Bind(PathLevels(gi, lo, n \div 2), LAMBDA half :
            PathLevels(gi, half, n - n \div 2))

\* the least k <= upto such that a path of total cost k ends in state s, or -1;
\* the squares such a path can touch are queried first, in the order that finds
\* the neighbours of each in the cache
CheapestPath(s, upto) ==
    Bind(QueryGrid(geologic_indices, 1, (upto + 2) * (upto + 2), upto + 1), LAMBDA gi :
    Bind(PathLevels(gi, <<<<{<<"Torch", MOUTH_OF_CAVE>>}>>,
                          <<MovesFrom(gi, {<<"Torch", MOUTH_OF_CAVE>>})>>>>,
                    upto)[1], LAMBDA levels :
        IF \E k \in 1..Len(levels) : s \in levels[k]
        THEN (CHOOSE k \in 1..Len(levels) :
                 /\ s \in levels[k]
                 /\ \A j \in 1..(k - 1) : s \notin levels[j]) - 1
        ELSE -1))

\* C2: for every depth >= 0 and every target on a small bounded terrain, the value
\* find_target returns is the minimum total cost over all paths from (Torch, origin)
\* to (Torch, target) in the (Tool, Coordinate) graph of the search's own edges: a
\* path of that cost exists and no path is cheaper.
C2_ReturnsMinimum ==
    (Returned("part_2") /\ WellFormed) =>
        /\ result # None
        /\ CheapestPath(<<"Torch", target>>, result[2]) = result[2]

C2_Witness ==
    /\ Returned("part_2") /\ WellFormed
    /\ result # None /\ result[2] > 2 * (target[1] + target[2])
    /\ Cardinality(DOMAIN time_costs) > 100

\* ---------------------------------------------------------------------------
Recorded == DOMAIN time_costs \cup {e[2] : e \in BagToSet(available_squares)}
RegionAt(coord) == get_region_type(geologic_indices, region_types, coord).val

\* C3: every region type permits exactly two distinct tools (Rocky: ClimbingGear,
\* Torch; Wet: ClimbingGear, None; Narrow: None, Torch), and for every depth >= 0
\* every state (tool, coord) find_target records in its cost map or pushes on its
\* frontier, the start state and the states at the origin and the target included,
\* has its tool among the tools region_type(coord) permits.
C3_PermittedTools ==
    /\ required_tools("Rocky") = {"ClimbingGear", "Torch"}
    /\ required_tools("Wet") = {"ClimbingGear", "None"}
    /\ required_tools("Narrow") = {"None", "Torch"}
    /\ (call = "part_2" /\ depth >= 0 /\ pc # "new") =>
           \A s \in Recorded : s[1] \in required_tools(RegionAt(s[2]))

\* C4: get_geologic_index returns 0 at the origin and at the target, for any depth
\* and target, before and after any sequence of other terrain queries, also when
\* the target lies on an axis.
C4_ZeroAtOriginAndTarget ==
    \A c \in {MOUTH_OF_CAVE, target} :
        get_geologic_index(geologic_indices, c).val = 0

C4_Witness ==
    /\ call = "api" /\ pc = "queried"
    /\ target # MOUTH_OF_CAVE /\ target[1] * target[2] = 0 /\ target[1] + target[2] > 0
    /\ <<1, 1>> \in DOMAIN geologic_indices
    /\ <<1, 1>> \in DOMAIN region_types
    /\ get_geologic_index(geologic_indices, target).val = 0

\* C5 as stated: for any depth, get_erosion_level returns 0 at the origin and at
\* the target.
C5_ZeroErosion ==
    \A c \in {MOUTH_OF_CAVE, target} :
        get_erosion_level(geologic_indices, c).val = 0

\* C5 as amended: at the origin and at the target get_erosion_level returns the
\* remainder of depth divided by 20183 (for a negative depth the negative remainder
\* of Rust's %), which is 0 only when depth is a multiple of 20183.
C5_ErosionIsDepthRemainder ==
    \A c \in {MOUTH_OF_CAVE, target} :
        get_erosion_level(geologic_indices, c).val =
            IF depth >= 0 THEN depth % 20183 ELSE -((-depth) % 20183)

C5_Witness ==
    /\ call = "api" /\ pc = "queried"
    /\ depth > 20183 /\ target \notin {MOUTH_OF_CAVE, <<1, 1>>}
    /\ <<1, 1>> \in DOMAIN geologic_indices
    /\ get_erosion_level(geologic_indices, target).val = depth - 20183

\* C6: for depth >= 0 and every coordinate (x, y) with x, y >= 0 that is neither
\* the origin nor the target, get_geologic_index returns x * 16807 when y = 0,
\* y * 48271 when x = 0, and otherwise erosion_level(x - 1, y) * erosion_level(x, y - 1)
\* with erosion_level(c) = (geologic_index(c) + depth) mod 20183, whatever was
\* queried before.
C6_GeologicIndex ==
    depth >= 0 =>
        \A grid \in {TerrainGrid(MaxQuery, MaxQuery)} :
            \A c \in QueryCoords \ {MOUTH_OF_CAVE, target} :
                /\ get_geologic_index(geologic_indices, c).val = grid[c].geo
                /\ get_erosion_level(geologic_indices, c).val = grid[c].ero

C6_Witness ==
    /\ call = "api" /\ pc = "queried" /\ depth >= 0
    /\ target = <<0, 1>>
    /\ <<1, 1>> \in DOMAIN geologic_indices
    /\ geologic_indices[<<1, 1>>] > 0
    /\ <<1, 0>> \in DOMAIN region_types

\* C7: part_1(depth, (tx, ty)) is the sum over the rectangle 0 <= x <= tx,
\* 0 <= y <= ty of erosion_level(x, y) mod 3 (Rocky = 0, Wet = 1, Narrow = 2);
\* in particular part_1(4002, (5, 746)) = 4479.
C7_RiskSum ==
    (Returned("part_1") /\ WellFormed) =>
        /\ \A grid \in {TerrainGrid(target[1], target[2])} :
               result = SumRange([i \in 1..((target[1] + 1) * (target[2] + 1)) |->
                                     grid[CellAt(i, target[2])].ero % 3],
                                 1, (target[1] + 1) * (target[2] + 1))
        /\ (depth = 4002 /\ target = <<5, 746>>) => result = 4479

C7_Witness ==
    /\ Returned("part_1") /\ WellFormed
    /\ target = <<2, 2>> /\ result > 2
    /\ Cardinality(DOMAIN region_types) = 9

\* C8: the successors find_target generates from a state (tool, coord) are exactly:
\* for each orthogonal neighbour n of coord with both components >= 0, if n is the
\* origin or the target the single successor (Torch, n), with cost 1 when
\* tool = Torch and 8 otherwise; else one successor (t, n) for each of the two tools
\* t that region_type(n) permits, with cost 1 when t = tool and 8 otherwise.
PermittedTools(rt) ==
    CASE rt = "Rocky" -> {"ClimbingGear", "Torch"}
      [] rt = "Wet" -> {"ClimbingGear", "None"}
      [] rt = "Narrow" -> {"None", "Torch"}

Neighbours(c) ==
    {n \in {<<c[1] - 1, c[2]>>, <<c[1] + 1, c[2]>>, <<c[1], c[2] - 1>>,
             <<c[1], c[2] + 1>>} : n[1] >= 0 /\ n[2] >= 0}

Successors(tool, c) ==
    UNION {IF n = MOUTH_OF_CAVE \/ n = target
           THEN {<<"Torch", n, IF tool = "Torch" THEN 1 ELSE 8>>}
           ELSE {<<t, n, IF t = tool THEN 1 ELSE 8>> : t \in PermittedTools(RegionAt(n))} :
           n \in Neighbours(c)}

C8_Successors ==
    (call = "part_2" /\ depth >= 0 /\ expanded.fresh) =>
        expanded.succ = Successors(expanded.tool, expanded.pos)

C8_Witness ==
    /\ call = "part_2" /\ expanded.fresh
    /\ expanded.tool # "Torch"
    /\ expanded.pos[1] = 0 /\ expanded.pos[2] > 0
    /\ target \in Neighbours(expanded.pos)
    /\ Cardinality(expanded.succ) = 5

\* C9: when the state (Torch, target) cannot be reached from (Torch, origin), which
\* is when the target has a negative coordinate, find_target does not panic, and
\* when it returns the frontier is empty and the value is None.
C9_UnreachableReturnsNone ==
    (call = "part_2" /\ (target[1] < 0 \/ target[2] < 0)) =>
        /\ pc # "panicked"
        /\ pc = "returned" => (result = None /\ available_squares = EmptyBag)

\* C10: a negative depth or a target with a negative coordinate is rejected by
\* part_1 / part_2 before any terrain is generated or any search step runs, and is
\* not discovered later as a panic or as a search that does not end.
C10_MalformedRejected ==
    (call \in {"part_1", "part_2"} /\ ~WellFormed) =>
        /\ DOMAIN geologic_indices = {MOUTH_OF_CAVE, target}
        /\ region_types = EmptyMap
        /\ expanded = NoExpansion
        /\ pc \notin {"panicked", "beyond"}

\* C11: the not-found outcome differs from a zero-cost success: when the target is
\* the origin find_target returns Some(0), for every depth, and None is returned
\* only with the frontier empty.
C11_ZeroCostIsNotNone ==
    /\ Some(0) # None
    /\ Returned("part_2") =>
           /\ (target = MOUTH_OF_CAVE => result = Some(0))
           /\ (result = None => available_squares = EmptyBag)

C11_Witness ==
    /\ Returned("part_2") /\ target = MOUTH_OF_CAVE /\ depth < 0
    /\ result = Some(0) /\ available_squares = EmptyBag

\* ---------------------------------------------------------------------------
\* what the four queries return for coord on a cave whose caches are gi and rt
QueryResults(gi, rt, coord) ==
    Bind(get_region_type(gi, rt, coord), LAMBDA r :
    Bind(get_risk_level(gi, rt, coord), LAMBDA k :
        <<get_geologic_index(gi, coord).val, get_erosion_level(gi, coord).val,
          r.val, r.panic, k.val, k.panic>>))

\* C12: on one Cave, across any step (a query, an iteration of part_1 or of the
\* search), every entry of geologic_indices and of region_types stays as it was
\* written, and each of the four queries returns for every coordinate what it
\* returned before the step: a repeated query returns the result of the first one.
C12_CachesStable ==
    [][/\ \A c \in DOMAIN geologic_indices :
              c \in DOMAIN geologic_indices' /\ geologic_indices'[c] = geologic_indices[c]
       /\ \A c \in DOMAIN region_types :
              c \in DOMAIN region_types' /\ region_types'[c] = region_types[c]
       /\ \A c \in QueryCoords :
              QueryResults(geologic_indices', region_types', c) =
                  QueryResults(geologic_indices, region_types, c)]_vars

C12_Witness ==
    /\ call = "api" /\ pc = "queried" /\ depth > 0
    /\ DOMAIN region_types = QueryCoords
    /\ QueryCoords \subseteq DOMAIN geologic_indices
    /\ geologic_indices[<<1, 1>>] > ErosionModulus

\* ---------------------------------------------------------------------------
\* the entry a step of the search takes off the frontier: the one entry the
\* frontier holds fewer copies of after the step (what an expansion pushes for a
\* state is cheaper than what it popped for that state)
PoppedBy(e) ==
    /\ call = "part_2" /\ pc = "searching"
    /\ CopiesIn(e, available_squares') < CopiesIn(e, available_squares)

\* C17: whenever find_target pops an entry whose state is (Torch, target), the
\* first time included, it returns in that iteration, and the value it returns
\* (read from time_costs) is the time carried by the popped entry; the popped
\* entry is never a stale one, whose time is larger than the recorded best.
C17_TargetPopReturnsItsTime ==
    [][\A e \in BagToSet(available_squares) :
          (PoppedBy(e) /\ e[2] = <<"Torch", target>>) =>
              /\ pc' = "returned"
              /\ result' = Some(e[1])
              /\ e[2] \in DOMAIN time_costs /\ time_costs[e[2]] = e[1]
              /\ time_costs' = time_costs]_vars

\* a search returned the time of the target while a stale entry for
\* (Torch, target) was still on the frontier
C17_Witness ==
    /\ Returned("part_2") /\ target # MOUTH_OF_CAVE
    /\ result = Some(time_costs[<<"Torch", target>>])
    /\ \E e \in BagToSet(available_squares) :
          e[2] = <<"Torch", target>> /\ e[1] > result[2]

\* C18: once a state (tool, coord) has been popped and expanded (its entry was not
\* stale), no later step of the search lowers the cost time_costs records for it
\* (nor changes it at all).
C18_ExpandedCostNotLowered ==
    [][\A s \in expanded.done :
          /\ s \in DOMAIN time_costs /\ s \in DOMAIN time_costs'
          /\ time_costs'[s] >= time_costs[s]]_vars

\* an expansion has just met again, as successors, two states expanded before it
C18_Witness ==
    /\ call = "part_2" /\ pc = "searching" /\ expanded.fresh
    /\ Cardinality({s \in expanded.done : s # <<expanded.tool, expanded.pos>>
                       /\ \E m \in expanded.succ : <<m[1], m[2]>> = s}) >= 2

\* every entry of the frontier is for a state with a recorded cost, and the cost
\* is at most the entry's time
FrontierCosted ==
    \A e \in BagToSet(available_squares) :
        e[2] \in DOMAIN time_costs /\ time_costs[e[2]] <= e[1]

\* C19: at every step of find_target each entry (t, state) of the frontier has a
\* cost recorded for state and the cost is <= t, so no pop finds its state without
\* a cost (the unreachable!() branch is not taken); and a popped entry with t
\* greater than the recorded cost is skipped: the step takes it off the frontier
\* and leaves time_costs, best_edges and the rest of the frontier as they were.
C19_FrontierCostedStaleSkipped ==
    /\ [](call = "part_2" => FrontierCosted)
    /\ [][\A e \in BagToSet(available_squares) :
             PoppedBy(e) =>
                 /\ e[2] \in DOMAIN time_costs
                 /\ (e[2] # <<"Torch", target>> /\ e[1] > time_costs[e[2]]) =>
                        /\ time_costs' = time_costs
                        /\ best_edges' = best_edges
                        /\ available_squares' = available_squares (-) SetToBag({e})
                        /\ pc' = "searching"]_vars

\* the search goes on after it skipped a stale entry: the last pop was not an
\* expansion, and the frontier still holds an entry dearer than its state's cost
C19_Witness ==
    /\ call = "part_2" /\ pc = "searching"
    /\ expanded.done # {} /\ ~expanded.fresh
    /\ \E e \in BagToSet(available_squares) : time_costs[e[2]] < e[1]

\* ---------------------------------------------------------------------------
\* part_2 over the range of Depth: small depths, the largest erosion level, a
\* depth in the middle of the range and the largest i32; in either build profile
DeepDepths == {0, 1, 510, 20182, 1000000000, I32Max}

DeepInit ==
    /\ overflow_checks \in BOOLEAN
    /\ \E d \in DeepDepths, t \in Targets, o \in {"first", "last"} :
          New("part_2", d, t, o)

DeepNext ==
    \/ FindTargetEnter
    \/ FindTargetStep

DeepSpec == DeepInit /\ [][DeepNext]_vars

\* C21: for every depth >= 0 and every target (tx, ty) with tx, ty >= 0,
\* find_target ends by returning (it does not panic), and what it returns is
\* Some(t), never None, with tx + ty <= t <= 8 * (tx + ty).
C21_ReturnsBoundedTime ==
    (call = "part_2" /\ WellFormed) =>
        /\ pc # "panicked"
        /\ pc = "returned" =>
              /\ result # None
              /\ target[1] + target[2] <= result[2]
              /\ result[2] <= 8 * (target[1] + target[2])

\* ---------------------------------------------------------------------------
\* The terrain queries at the far ends of the axes, next to the queries around the
\* origin: the least and the largest depth below 20183, the target at the far
\* corner, in either build profile.
RangeDepths == {0, 20182}
RangeTargets == {<<100000, 40000>>}
RangeCoords == QueryCoords \cup {<<100000, 0>>, <<0, 40000>>}

RangeInit ==
    /\ overflow_checks \in BOOLEAN
    /\ \E d \in RangeDepths, t \in RangeTargets : New("api", d, t, "any")

RangeNext ==
    \E coord \in RangeCoords :
        \/ GetGeologicIndex(coord)
        \/ GetErosionLevel(coord)
        \/ GetRegionType(coord)
        \/ GetRiskLevel(coord)

RangeSpec == RangeInit /\ [][RangeNext]_vars

\* C22: for 0 <= depth < 20183 and coordinates with 0 <= x <= 100000 and
\* 0 <= y <= 40000, no multiplication or addition of get_geologic_index and
\* get_erosion_level overflows i32, a geologic index is not negative and off the
\* axes at most 20182 * 20182, every erosion level lies in 0..20182, its remainder
\* by 3 is 0, 1 or 2, and no query panics (get_region_type does not reach
\* unreachable!()).
C22_FitsI32 ==
    (call = "api" /\ 0 <= depth /\ depth < ErosionModulus) =>
        /\ pc # "panicked"
        /\ \A c \in DOMAIN geologic_indices : geologic_indices[c] >= 0
        /\ ~I32Add(I32Mul(ErosionModulus - 1, ErosionModulus - 1).val,
                   ErosionModulus - 1).overflow
        /\ \A c \in RangeCoords :
              (c[1] <= 100000 /\ c[2] <= 40000) =>
                  /\ \E g \in {get_geologic_index(geologic_indices, c)} :
                        /\ ~g.overflow
                        /\ 0 <= g.val
                        /\ (c[1] > 0 /\ c[2] > 0) =>
                               g.val <= (ErosionModulus - 1) * (ErosionModulus - 1)
                  /\ \E e \in {get_erosion_level(geologic_indices, c)} :
                        /\ ~e.overflow
                        /\ e.val \in 0..(ErosionModulus - 1)
                        /\ RemT(e.val, RegionModulus) \in {0, 1, 2}
                  /\ \E r \in {get_region_type(geologic_indices, region_types, c)} :
                        ~r.panic /\ ~r.overflow /\ r.val \in RegionTypes

\* the far ends of both axes were queried with the largest depth
C22_Witness ==
    /\ call = "api" /\ pc = "queried" /\ depth = ErosionModulus - 1
    /\ <<100000, 0>> \in DOMAIN region_types /\ <<0, 40000>> \in DOMAIN region_types
    /\ geologic_indices[<<100000, 0>>] = 1680700000
    /\ geologic_indices[<<0, 40000>>] = 1930840000
    /\ <<1, 1>> \in DOMAIN geologic_indices

\* ===================================================================== day 15
\* src/day-15/src/main.rs: the Map, reading order, the heap of DistanceCoordinate
\* and get_reachable_path. Coordinate and the Transitions up / down / left / right
\* are the ones of day 22.

\* the variables of day 22 while an entry point of another crate runs
CaveIdle ==
    /\ order = "any"
    /\ overflow_checks = TRUE
    /\ depth = 0
    /\ target = MOUTH_OF_CAVE
    /\ geologic_indices = EmptyMap
    /\ region_types = EmptyMap
    /\ total_risk = 0
    /\ cursor = MOUTH_OF_CAVE
    /\ time_costs = EmptyMap
    /\ best_edges = EmptyMap
    /\ expanded = NoExpansion

caveIdleVars == <<caveVars, geologic_indices, region_types, part1Vars, time_costs,
                  best_edges, expanded>>

\* i32::cmp as -1 (Less) / 0 (Equal) / 1 (Greater)
Compare(a, b) == IF a < b THEN -1 ELSE IF a > b THEN 1 ELSE 0

get_manhattan_distance(s, e) == Abs(s[1] - e[1]) + Abs(s[2] - e[2])

reading_order(first_coord, second_coord) ==
    IF first_coord[2] # second_coord[2]
    THEN Compare(first_coord[2], second_coord[2])
    ELSE Compare(first_coord[1], second_coord[1])

\* mutant: entries of equal distance are ordered as tuples, x first
partial_cmp_TupleTies(self, other) ==
    IF self[1] # other[1] THEN Compare(other[1], self[1])
    ELSE IF other[2][1] # self[2][1] THEN Compare(other[2][1], self[2][1])
    ELSE Compare(other[2][2], self[2][2])

\* Ord for DistanceCoordinate, an entry being <<distance, coordinate>>
partial_cmp(self, other) ==
    IF self[1] # other[1] THEN Compare(other[1], self[1])
    ELSE reading_order(other[2], self[2])

\* Map::insert(position, cell): the map with the cell added
insert(m, position, cell) ==
    CASE cell = "#" -> [m EXCEPT !.terrain = Insert(@, position, "Wall")]
      [] cell = "." -> [m EXCEPT !.terrain = Insert(@, position, "Cavern")]
      [] cell = "G" -> [terrain |-> Insert(m.terrain, position, "Cavern"),
                        units |-> Insert(m.units, position, "Goblin")]
      [] cell = "E" -> [terrain |-> Insert(m.terrain, position, "Cavern"),
                        units |-> Insert(m.units, position, "Elf")]

\* parse_input: lines is a sequence of lines, a line a sequence of characters;
\* the inner loop over the characters lo .. hi - 1 of line y, left to right
RECURSIVE InsertLine(_, _, _, _, _)
InsertLine(m, line, y, lo, hi) ==
    IF hi <= lo THEN m
    ELSE IF hi = lo + 1 THEN insert(m, <<lo, y>>, line[lo + 1])
    ELSE Bind(InsertLine(m, line, y, lo, (lo + hi) \div 2), LAMBDA m1 :
            InsertLine(m1, line, y, (lo + hi) \div 2, hi))

\* the outer loop over the lines lo .. hi - 1, top to bottom
RECURSIVE InsertLines(_, _, _, _)
InsertLines(m, lines, lo, hi) ==
    IF hi <= lo THEN m
    ELSE IF hi = lo + 1 THEN InsertLine(m, lines[lo + 1], lo, 0, Len(lines[lo + 1]))
    ELSE Bind(InsertLines(m, lines, lo, (lo + hi) \div 2), LAMBDA m1 :
            InsertLines(m1, lines, (lo + hi) \div 2, hi))

parse_input(lines) ==
    Bind([terrain |-> EmptyMap, units |-> EmptyMap], LAMBDA m :
        InsertLines(m, lines, 0, Len(lines)))

is_wall(m, position) ==
    IF position \notin DOMAIN m.terrain THEN TRUE
    ELSE m.terrain[position] = "Wall"

is_occupied(m, position) ==
    IF is_wall(m, position) THEN TRUE ELSE position \in DOMAIN m.units

get_adjacent_open_squares(m, position) ==
    SelectSeq(<<up(position), down(position), left(position), right(position)>>,
              LAMBDA coord : ~is_occupied(m, coord))

\* ------------------------------------------------------ get_reachable_path
\* The heap holds <<distance, coordinate>> entries; an entry is pushed only with
\* a distance smaller than any pushed before for its coordinate, so no entry is
\* pushed twice and the heap is a set. Ord is total on distinct entries: pop has
\* one choice.
\* mutant: the entry Ord calls least is popped (the order is not reversed)
PopDistance_Farthest(heap) == CHOOSE e \in heap : \A o \in heap : partial_cmp(e, o) <= 0

PopDistance(heap) == CHOOSE e \in heap : \A o \in heap : partial_cmp(e, o) >= 0

\* let mut path = vec![current_position]; while current != end { ... }
RECURSIVE Backtrack(_, _, _, _)
Backtrack(path, current, edges, e) ==
    IF current = e THEN path
    ELSE Bind(Append(path, edges[current]), LAMBDA path1 :
            Backtrack(path1, edges[current], edges, e))

\* the match on distances.get(&adjacent_square)
RelaxSquare(s, current_distance, current_position, adjacent_square) ==
    IF adjacent_square \notin DOMAIN s.distances
       \/ current_distance + 1 < s.distances[adjacent_square]
    THEN [s EXCEPT !.heap = @ \cup {<<current_distance + 1, adjacent_square>>},
                   !.distances = Insert(@, adjacent_square, current_distance + 1),
                   !.best_edges = Insert(@, adjacent_square, current_position)]
    ELSE s

\* for adjacent_square in map.get_adjacent_open_squares(current_position)
RECURSIVE ExpandSquare(_, _, _, _)
ExpandSquare(s, current_distance, current_position, adjacent) ==
    IF adjacent = <<>> THEN s
    ELSE Bind(RelaxSquare(s, current_distance, current_position, Head(adjacent)),
              LAMBDA s1 : ExpandSquare(s1, current_distance, current_position,
                                       Tail(adjacent)))

\* one turn of while let Some(current_square) = available_squares.pop() { ... }:
\* s.running is FALSE once the function has returned s.outcome
SearchStep(m, s, st, e) ==
    IF ~s.running THEN s
    ELSE IF s.heap = {} THEN [s EXCEPT !.running = FALSE, !.outcome = None]
    ELSE Bind(PopDistance(s.heap), LAMBDA current_square :
         Bind([s EXCEPT !.heap = @ \ {current_square}], LAMBDA popped :
            IF get_manhattan_distance(st, current_square[2]) <= 1
            THEN [popped EXCEPT !.running = FALSE,
                                !.outcome = Some(Backtrack(<<current_square[2]>>,
                                                           current_square[2],
                                                           s.best_edges, e))]
            ELSE IF current_square[2] \notin DOMAIN s.distances
            THEN [popped EXCEPT !.running = FALSE, !.outcome = <<"panic">>]
            ELSE IF current_square[1] > s.distances[current_square[2]]
            THEN popped
            ELSE ExpandSquare(popped, current_square[1], current_square[2],
                              get_adjacent_open_squares(m, current_square[2]))))

\* n turns of the loop, one after the other
RECURSIVE SearchSteps(_, _, _, _, _)
SearchSteps(m, s, st, e, n) ==
    IF n <= 1 THEN SearchStep(m, s, st, e)
    ELSE Bind(SearchSteps(m, s, st, e, n \div 2), LAMBDA s1 :
            SearchSteps(m, s1, st, e, n - n \div 2))

\* the loop, run until the function returns: turns are taken as many at a time
\* as the map has squares
RECURSIVE SearchPath(_, _, _, _)
SearchPath(m, s, st, e) ==
    Bind(SearchSteps(m, s, st, e, Cardinality(DOMAIN m.terrain) + 1), LAMBDA s1 :
        IF s1.running THEN SearchPath(m, s1, st, e) ELSE s1.outcome)

get_reachable_path(m, st, e) ==
    IF st = e THEN Some(<<>>)
    ELSE IF is_wall(m, st) \/ is_wall(m, e) THEN None
    ELSE IF is_occupied(m, e) THEN None
    ELSE Bind([heap |-> {<<0, e>>}, distances |-> Insert(EmptyMap, e, 0),
               best_edges |-> EmptyMap, running |-> TRUE, outcome |-> None],
              LAMBDA s : SearchPath(m, s, st, e))

\* the maps get_reachable_path is called on: the 3 x 3 grids with at most
\* MaxBlocked squares that are walls or hold units (beyond the grid is_wall answers
\* true), and the map of tests::test_is_reachable
GridCells == (0..2) \X (0..2)

GridLines(walls, units) ==
    [y \in 1..3 |-> [x \in 1..3 |->
        IF <<x - 1, y - 1>> \in walls THEN "#"
        ELSE IF <<x - 1, y - 1>> \in units THEN "G" ELSE "."]]

TestLines ==
    <<[x \in 1..19 |-> "#"],
      [x \in 1..19 |-> IF x \in {1, 19} THEN "#" ELSE IF x = 3 THEN "E" ELSE "."],
      [x \in 1..19 |-> IF x = 18 THEN "." ELSE "#"],
      [x \in 1..19 |-> IF x \in {1, 19} THEN "#" ELSE IF x = 5 THEN "G" ELSE "."],
      [x \in 1..19 |-> "#"]>>

BlockedSets == {b \in SUBSET GridCells : Cardinality(b) <= MaxBlocked}

PathInit ==
    /\ CaveIdle
    /\ call = "get_reachable_path" /\ pc = "new"
    /\ \/ \E blocked \in BlockedSets : \E walls \in SUBSET blocked :
             /\ map = parse_input(GridLines(walls, blocked \ walls))
             /\ start \in GridCells
             /\ end \in GridCells
       \/ /\ map = parse_input(TestLines)
          /\ start = <<2, 1>>
          /\ end = <<5, 3>>
    /\ coords = <<>> /\ actual = <<>>
    /\ first_segment = <<MOUTH_OF_CAVE, MOUTH_OF_CAVE>>
    /\ second_segment = <<MOUTH_OF_CAVE, MOUTH_OF_CAVE>>
    /\ available_squares = EmptyBag
    /\ result = None

GetReachablePath ==
    /\ call = "get_reachable_path" /\ pc = "new"
    /\ result' = get_reachable_path(map, start, end)
    /\ pc' = "returned"
    /\ UNCHANGED <<call, caveIdleVars, available_squares, otherVars>>

PathNext == GetReachablePath

PathSpec == PathInit /\ [][PathNext]_vars

\* ---------------------------------------------------------------------------
\* The squares of the map by their distance from end through open squares:
\* levels[k + 1] holds the squares k steps away.
OpenSquare(c) ==
    /\ c \in DOMAIN map.terrain /\ map.terrain[c] = "Cavern"
    /\ c \notin DOMAIN map.units

Adjacent(a, b) ==
    \/ a[1] = b[1] /\ (a[2] - b[2] = 1 \/ b[2] - a[2] = 1)
    \/ a[2] = b[2] /\ (a[1] - b[1] = 1 \/ b[1] - a[1] = 1)

NearStart(c) == c = start \/ Adjacent(c, start)

RECURSIVE OpenLevels(_, _)
OpenLevels(levels, seen) ==
    Bind({c \in DOMAIN map.terrain :
            /\ OpenSquare(c) /\ c \notin seen
            /\ \E b \in levels[Len(levels)] : Adjacent(b, c)}, LAMBDA level :
        IF level = {} THEN levels
        ELSE OpenLevels(Append(levels, level), seen \cup level))

\* C13: get_reachable_path(map, start, end) with start # end returns Some(path)
\* exactly when start and end are not walls, end holds no unit and end is connected
\* through orthogonally adjacent open squares to a square within Manhattan
\* distance 1 of start; the path then ends at end, starts within distance 1 of
\* start, has consecutive squares adjacent, holds open squares only and has the
\* least possible number of squares (29 on the test map); otherwise it returns None.
C13_ShortestOpenPath ==
    (Returned("get_reachable_path") /\ start # end) =>
        \A levels \in {OpenLevels(<<{end}>>, {end})} :
            IF /\ start \in DOMAIN map.terrain /\ map.terrain[start] # "Wall"
               /\ OpenSquare(end)
               /\ \E k \in 1..Len(levels) : \E c \in levels[k] : NearStart(c)
            THEN /\ result[1] = "Some"
                 /\ \A path \in {result[2]} :
                       /\ Len(path) >= 1
                       /\ NearStart(path[1])
                       /\ path[Len(path)] = end
                       /\ \A i \in 1..(Len(path) - 1) : Adjacent(path[i], path[i + 1])
                       /\ \A i \in 1..Len(path) : OpenSquare(path[i])
                       /\ Len(path) <= Len(levels)
                       /\ \E c \in levels[Len(path)] : NearStart(c)
                       /\ \A k \in 1..(Len(path) - 1) : \A c \in levels[k] : ~NearStart(c)
                 /\ (start = <<2, 1>> /\ end = <<5, 3>> /\ Len(levels) > 9) =>
                        Len(result[2]) = 29
            ELSE result = None

C13_Witness ==
    /\ Returned("get_reachable_path")
    /\ start = <<2, 1>> /\ end = <<5, 3>>
    /\ Cardinality(DOMAIN map.terrain) = 95
    /\ result[1] = "Some" /\ Len(result[2]) = 29
    /\ result[2][1] = <<3, 1>>

\* -------------------------------------------------------------- pick_coord
\* Ord for (i32, i32), which coords.sort() uses: the first components decide,
\* then the second
tuple_cmp(a, b) == IF a[1] # b[1] THEN Compare(a[1], b[1]) ELSE Compare(a[2], b[2])

\* coords.sort(): v with e inserted before the first element greater than e
RECURSIVE SortedInsert(_, _)
SortedInsert(v, e) ==
    IF v = <<>> THEN <<e>>
    ELSE IF tuple_cmp(e, Head(v)) < 0 THEN <<e>> \o v
    ELSE <<Head(v)>> \o SortedInsert(Tail(v), e)

RECURSIVE sort(_)
sort(v) == IF v = <<>> THEN <<>> ELSE SortedInsert(sort(Tail(v)), Head(v))

\* assert!(coords.len() > 0) is the caller's to establish
pick_coord(v) == Head(sort(v))

PickCells == (0..1) \X (0..1)

PickInit ==
    /\ CaveIdle
    /\ call = "pick_coord" /\ pc = "new"
    /\ coords \in UNION {[1..n -> PickCells] : n \in 0..MaxVec}
    /\ map = [terrain |-> EmptyMap, units |-> EmptyMap]
    /\ start = MOUTH_OF_CAVE /\ end = MOUTH_OF_CAVE
    /\ actual = <<>>
    /\ first_segment = <<MOUTH_OF_CAVE, MOUTH_OF_CAVE>>
    /\ second_segment = <<MOUTH_OF_CAVE, MOUTH_OF_CAVE>>
    /\ available_squares = EmptyBag
    /\ result = None

PickCoord ==
    /\ call = "pick_coord" /\ pc = "new"
    /\ IF Len(coords) > 0
       THEN pc' = "returned" /\ result' = pick_coord(coords)
       ELSE pc' = "panicked" /\ UNCHANGED result
    /\ UNCHANGED <<call, caveIdleVars, available_squares, otherVars>>

PickNext == PickCoord

PickSpec == PickInit /\ [][PickNext]_vars

\* C14: for every non-empty vector of coordinates pick_coord returns the one that
\* comes first in reading order: an element of the vector that reading_order puts
\* before or level with every other (smallest y, then smallest x).
C14_FirstInReadingOrder ==
    Returned("pick_coord") =>
        /\ \E i \in 1..Len(coords) : coords[i] = result
        /\ \A i \in 1..Len(coords) : reading_order(result, coords[i]) <= 0

\* ------------------------------------------ BinaryHeap<DistanceCoordinate>
\* As tests::test_coord_reading_order uses it: entries are pushed, then popped
\* until the heap is empty, each popped entry appended to actual. pop returns a
\* greatest entry under Ord.
DistanceEntries == {4, 5} \X {<<1, 26>>, <<2, 25>>, <<2, 30>>, <<1, 25>>}

HeapInit(c) ==
    /\ CaveIdle
    /\ call = c /\ pc = "pushing"
    /\ available_squares = EmptyBag
    /\ actual = <<>>
    /\ map = [terrain |-> EmptyMap, units |-> EmptyMap]
    /\ start = MOUTH_OF_CAVE /\ end = MOUTH_OF_CAVE
    /\ coords = <<>>
    /\ first_segment = <<MOUTH_OF_CAVE, MOUTH_OF_CAVE>>
    /\ second_segment = <<MOUTH_OF_CAVE, MOUTH_OF_CAVE>>
    /\ result = None

DistanceHeapInit == HeapInit("distance_heap")

DistancePush ==
    /\ call = "distance_heap" /\ pc = "pushing"
    /\ BagCardinality(available_squares) < MaxHeap
    /\ \E e \in DistanceEntries :
          available_squares' = available_squares (+) SetToBag({e})
    /\ UNCHANGED <<call, pc, caveIdleVars, result, otherVars>>

DistancePop ==
    /\ call = "distance_heap" /\ pc \in {"pushing", "popping"}
    /\ \E item \in BagToSet(available_squares) :
          /\ \A o \in BagToSet(available_squares) : partial_cmp(item, o) >= 0
          /\ available_squares' = available_squares (-) SetToBag({item})
          /\ actual' = Append(actual, item)
    /\ pc' = "popping"
    /\ UNCHANGED <<call, caveIdleVars, result, map, start, end, coords, first_segment,
                   second_segment>>

DistanceHeapNext == DistancePush \/ DistancePop

DistanceHeapSpec == DistanceHeapInit /\ [][DistanceHeapNext]_vars

\* C15: a BinaryHeap of DistanceCoordinate pops entries in non-decreasing
\* distance, and entries of equal distance in reading order of their coordinates
\* (smaller y first, then smaller x), for every multiset of entries pushed.
C15_DistanceThenReadingOrder ==
    call = "distance_heap" =>
        \A i \in 1..(Len(actual) - 1) :
            \/ actual[i][1] < actual[i + 1][1]
            \/ /\ actual[i][1] = actual[i + 1][1]
               /\ \/ actual[i][2][2] < actual[i + 1][2][2]
                  \/ /\ actual[i][2][2] = actual[i + 1][2][2]
                     /\ actual[i][2][1] <= actual[i + 1][2][1]

C15_Witness ==
    /\ call = "distance_heap" /\ pc = "popping"
    /\ available_squares = EmptyBag
    /\ actual = <<<<4, <<2, 30>>>>, <<5, <<2, 25>>>>, <<5, <<1, 26>>>>>>

\* ------------------------------------------- day 22: the heap of TimeCoordinate
\* tests::test_time_cost_min_heap of src/day-22/src/main.rs: entries are pushed,
\* then popped until the heap is empty. The entries are the times of the test with
\* its three states and one more, which differs from the first in the tool only.
TimeEntries ==
    {1, 4, 5} \X {<<"Torch", <<1, 26>>>>, <<"Torch", <<2, 25>>>>, <<"Torch", <<2, 30>>>>,
                  <<"ClimbingGear", <<1, 26>>>>}

TimeHeapInit == HeapInit("time_heap")

TimePush ==
    /\ call = "time_heap" /\ pc = "pushing"
    /\ BagCardinality(available_squares) < MaxTimeHeap
    /\ \E e \in TimeEntries :
          available_squares' = available_squares (+) SetToBag({e})
    /\ UNCHANGED <<call, pc, caveIdleVars, result, otherVars>>

TimePop ==
    /\ call = "time_heap" /\ pc \in {"pushing", "popping"}
    /\ \E item \in BagToSet(available_squares) :
          /\ IsGreatest(item, available_squares)
          /\ available_squares' = available_squares (-) SetToBag({item})
          /\ actual' = Append(actual, item)
    /\ pc' = "popping"
    /\ UNCHANGED <<call, caveIdleVars, result, map, start, end, coords, first_segment,
                   second_segment>>

TimeHeapNext == TimePush \/ TimePop

TimeHeapSpec == TimeHeapInit /\ [][TimeHeapNext]_vars

\* C20: a BinaryHeap of TimeCoordinate is a min-priority frontier: for every
\* multiset of entries pushed, successive pops yield entries in non-decreasing time,
\* every entry left on the heap being no earlier than the last one popped; tool
\* and coordinate play no part: entries of one time compare Equal whatever their
\* states, and entries of different times compare as their times do, reversed.
C20_MinHeapByTime ==
    call = "time_heap" =>
        /\ \A i \in 1..(Len(actual) - 1) : actual[i][1] <= actual[i + 1][1]
        /\ \A e \in BagToSet(available_squares) :
               actual # <<>> => actual[Len(actual)][1] <= e[1]
        /\ \A a \in BagToSet(available_squares), b \in TimeEntries :
               /\ (a[1] = b[1]) = (cmp(a, b) = 0)
               /\ (a[1] < b[1]) = (cmp(a, b) = 1)

\* the four pushes and four pops of tests::test_time_cost_min_heap
C20_Witness ==
    /\ call = "time_heap" /\ pc = "popping"
    /\ available_squares = EmptyBag
    /\ actual = <<<<1, <<"Torch", <<2, 25>>>>>>, <<1, <<"Torch", <<2, 25>>>>>>,
                  <<4, <<"Torch", <<2, 30>>>>>>, <<5, <<"Torch", <<1, 26>>>>>>>>

\* =============================================================== 2019 day 3
\* src/2019/day-03-2019/src/main.rs: line_segments_intersection.
\*
\* f64 arithmetic. A finite f64 is [neg, m, e]: m is the 53-bit significand as a
\* sequence of bits, most significant first and leading bit 1, and the value is
\* (-1)^neg * m * 2^e; zero has m = <<>>. Every operation computes the exact result
\* and rounds it to 53 bits, to nearest, ties to even, as IEEE 754 does. The
\* values met here are far from the subnormal and the overflow range.
F64Zero == [neg |-> FALSE, m |-> <<>>, e |-> 0]

\* the f64 nearest to (-1)^neg * bits * 2^e, plus a non-zero tail below when
\* sticky; bits has no leading zeros
Round(neg, bits, e, sticky) ==
    IF bits = <<>> THEN F64Zero
    ELSE IF Len(bits) <= 53
    THEN [neg |-> neg, m |-> bits \o Zeros(53 - Len(bits)), e |-> e - (53 - Len(bits))]
    ELSE IF /\ bits[54] = 1
            /\ \/ sticky
               \/ bits[53] = 1
               \/ \E i \in 55..Len(bits) : bits[i] = 1
    THEN Bind(AddBits(SubSeq(bits, 1, 53), <<1>>), LAMBDA inc :
            [neg |-> neg, m |-> SubSeq(inc, 1, 53),
             e |-> e + Len(bits) - 53 + (Len(inc) - 53)])
    ELSE [neg |-> neg, m |-> SubSeq(bits, 1, 53), e |-> e + Len(bits) - 53]

\* the next count bits of the quotient by d, from the remainder r, and the
\* remainder after them
RECURSIVE DivBits(_, _, _)
DivBits(count, r, d) ==
    IF count = 1
    THEN [bits |-> <<IF 2 * r >= d THEN 1 ELSE 0>>,
          r |-> IF 2 * r >= d THEN 2 * r - d ELSE 2 * r]
    ELSE Bind(DivBits(count \div 2, r, d), LAMBDA high :
         Bind(DivBits(count - count \div 2, high.r, d), LAMBDA low :
            [bits |-> high.bits \o low.bits, r |-> low.r]))

\* n as f64 / d as f64, for i32 n and d # 0: the integer part and 87 bits of the
\* fraction hold at least 55 significant bits, the rest is in the remainder
F64Div(n, d) ==
    Bind(DivBits(87, Abs(n) % Abs(d), Abs(d)), LAMBDA q :
        Round((n < 0) # (d < 0), Strip(NatBits(Abs(n) \div Abs(d)) \o q.bits), -87,
              q.r # 0))

\* f * (k as f64), for an integer k
F64MulInt(f, k) ==
    IF f.m = <<>> \/ k = 0 THEN F64Zero
    ELSE Round(f.neg # (k < 0), MulBits(f.m, Abs(k)), f.e, FALSE)

\* a < b, for bit sequences without leading zeros
LessBits(a, b) ==
    \/ Len(a) < Len(b)
    \/ /\ Len(a) = Len(b)
       /\ \E i \in 1..Len(a) :
             /\ a[i] < b[i]
             /\ \A j \in 1..(i - 1) : a[j] = b[j]

\* (n as f64) + f, for an integer n
F64AddInt(n, f) ==
    IF f.m = <<>> THEN Round(n < 0, NatBits(Abs(n)), 0, FALSE)
    ELSE IF n = 0 THEN f
    ELSE Bind(IF f.e <= 0 THEN NatBits(Abs(n)) \o Zeros(-f.e) ELSE NatBits(Abs(n)),
              LAMBDA a :
         Bind(IF f.e <= 0 THEN f.m ELSE f.m \o Zeros(f.e), LAMBDA b :
         Bind(IF f.e <= 0 THEN f.e ELSE 0, LAMBDA ex :
            IF (n < 0) = f.neg THEN Round(f.neg, AddBits(a, b), ex, FALSE)
            ELSE IF LessBits(a, b) THEN Round(f.neg, SubBits(b, a), ex, FALSE)
            ELSE Round(n < 0, SubBits(a, b), ex, FALSE))))

\* f as i32: the fraction is dropped (the values met here are in range)
F64AsI32(f) ==
    IF f.m = <<>> \/ f.e <= -53 THEN 0
    ELSE Bind(IF f.e <= 0 THEN BitsNat(SubSeq(f.m, 1, 53 + f.e)) ELSE 2147483647,
              LAMBDA n : IF f.neg THEN -n ELSE n)

\* 0.0 <= f && f <= 1.0
F64InUnit(f) ==
    \/ f.m = <<>>
    \/ /\ ~f.neg
       /\ \/ f.e < -52
          \/ f.e = -52 /\ \A i \in 2..53 : f.m[i] = 0

\* ---------------------------------------------- line_segments_intersection
line_segments_intersection(first, second) ==
    LET x_1 == first[1][1]   y_1 == first[1][2]
        x_2 == first[2][1]   y_2 == first[2][2]
        x_3 == second[1][1]  y_3 == second[1][2]
        x_4 == second[2][1]  y_4 == second[2][2]
        parameter_1_numerator == (y_3 - y_4) * (x_1 - x_3) + (x_4 - x_3) * (y_1 - y_3)
        parameter_1_denominator == (x_4 - x_3) * (y_1 - y_2) - (x_1 - x_2) * (y_4 - y_3)
        parameter_2_numerator == (y_1 - y_2) * (x_1 - x_3) + (x_2 - x_1) * (y_1 - y_3)
        parameter_2_denominator == (x_4 - x_3) * (y_1 - y_2) - (x_1 - x_2) * (y_4 - y_3)
    IN IF parameter_1_denominator = 0 \/ parameter_2_denominator = 0 THEN None
       ELSE Bind(F64Div(parameter_1_numerator, parameter_1_denominator),
                 LAMBDA parameter_1 :
            Bind(F64Div(parameter_2_numerator, parameter_2_denominator),
                 LAMBDA parameter_2 :
               IF F64InUnit(parameter_1) /\ F64InUnit(parameter_2)
               THEN Some(<<F64AsI32(F64AddInt(x_1, F64MulInt(parameter_1, x_2 - x_1))),
                           F64AsI32(F64AddInt(y_1, F64MulInt(parameter_1, y_2 - y_1)))>>)
               ELSE None))

\* the segments of the calls: along one axis a long segment with one endpoint at
\* -MaxSeg or 0 and the other anywhere in -MaxSeg..MaxSeg (a single point when
\* both agree), across it a short one around 0 or beside it
SegValues == (-MaxSeg)..MaxSeg

Transpose(seg) == <<<<seg[1][2], seg[1][1]>>, <<seg[2][2], seg[2][1]>>>>

UprightSegments ==
    {<<<<0, a>>, <<0, b>>>> : a \in {-MaxSeg, 0}, b \in SegValues}
    \cup {<<<<0, b>>, <<0, a>>>> : a \in {-MaxSeg, 0}, b \in SegValues}
    \cup {<<<<c, pq[1]>>, <<c, pq[2]>>>> :
            c \in SegValues, pq \in {<<-1, 1>>, <<1, -1>>, <<1, 2>>}}

\* the segments of tests::test_line_segments_intersection
TestSegments ==
    {<<<<3, 2>>, <<3, 10>>>>, <<<<0, 3>>, <<10, 3>>>>, <<<<0, 30>>, <<10, 30>>>>,
     <<<<3, -10>>, <<3, 20>>>>, <<<<-10, 3>>, <<20, 3>>>>}

Segments ==
    UprightSegments \cup {Transpose(seg) : seg \in UprightSegments} \cup TestSegments

SegmentInit ==
    /\ CaveIdle
    /\ call = "line_segments_intersection" /\ pc = "new"
    /\ first_segment \in Segments
    /\ second_segment \in Segments
    /\ map = [terrain |-> EmptyMap, units |-> EmptyMap]
    /\ start = MOUTH_OF_CAVE /\ end = MOUTH_OF_CAVE
    /\ coords = <<>> /\ actual = <<>>
    /\ available_squares = EmptyBag
    /\ result = None

LineSegmentsIntersection ==
    /\ call = "line_segments_intersection" /\ pc = "new"
    /\ result' = line_segments_intersection(first_segment, second_segment)
    /\ pc' = "returned"
    /\ UNCHANGED <<call, caveIdleVars, available_squares, otherVars>>

SegmentNext == LineSegmentsIntersection

SegmentSpec == SegmentInit /\ [][SegmentNext]_vars

Horizontal(seg) == seg[1][2] = seg[2][2] /\ seg[1][1] # seg[2][1]
Vertical(seg) == seg[1][1] = seg[2][1] /\ seg[1][2] # seg[2][2]

Between(v, a, b) == (a <= v /\ v <= b) \/ (b <= v /\ v <= a)

\* the point a horizontal and a vertical segment share, when they share one
Crossing(horizontal, vertical) ==
    IF /\ Between(vertical[1][1], horizontal[1][1], horizontal[2][1])
       /\ Between(horizontal[1][2], vertical[1][2], vertical[2][2])
    THEN Some(<<vertical[1][1], horizontal[1][2]>>)
    ELSE None

\* C16: for two non-degenerate axis-aligned segments with integer endpoints,
\* line_segments_intersection returns Some(p) exactly when one is horizontal, the
\* other vertical and they share a point (endpoints included), p being that point
\* (x of the vertical segment, y of the horizontal one); it returns None when they
\* do not meet and for parallel segments, collinear overlapping ones included.
C16_AxisAlignedIntersection ==
    ( /\ call = "line_segments_intersection" /\ pc = "returned"
      /\ Horizontal(first_segment) \/ Vertical(first_segment)
      /\ Horizontal(second_segment) \/ Vertical(second_segment) )
    => result = IF Horizontal(first_segment) /\ Vertical(second_segment)
                THEN Crossing(first_segment, second_segment)
                ELSE IF Vertical(first_segment) /\ Horizontal(second_segment)
                THEN Crossing(second_segment, first_segment)
                ELSE None
====
